---- MODULE Spec2Model ----
(***************************************************************************)
(* A model of the product-catalog backend in src/main.py: the category     *)
(* classifier, the parser of the model's response, the web augmenter, the  *)
(* generate_catalog / entries / export_pdf request handlers, the upload    *)
(* folder and the document store they share.                               *)
(*                                                                         *)
(* A Python str is a sequence of one-character strings, a bytes object a   *)
(* sequence of integers 0..255.  Lengths of the export are fixed-point     *)
(* numbers, one unit = 1/100 point.                                        *)
(***************************************************************************)
EXTENDS Integers, Sequences, FiniteSets, TLC

VARIABLES
    disk,      \* the upload folder: sanitized filename -> bytes of the file
    store,     \* the collection "entries": the sequence of inserted records
    req,       \* per request thread: the batch, the position in it, the locals
    listed,    \* the body of the /entries response being sent
    pdf,       \* the /export_pdf response being sent: pages, cursor, draw operations
    audit,     \* for each record of store: the item that made it and its locals
    cls,       \* one call of classify_category: arguments and result
    prs        \* one run of the response parser: text and what it extracted

vars == <<disk, store, audit, req, listed, pdf, cls, prs>>

\* ---------------------------------------------------------------- bounds

\* Largest number of files in one request.
MaxFiles == 3
\* Largest number of files in the requests that run concurrently.
MaxUploads == 2
\* Largest number of records in the store when an export is rendered.
MaxRecords == 3
\* Largest number of words of a description given to the classifier.
MaxWords == 2
\* Largest number of lines of a response given to the parser.
MaxLines == 4

\* ------------------------------------------------------ Python's str

Min(S) == CHOOSE x \in S : \A y \in S : x <= y
Max(S) == CHOOSE x \in S : \A y \in S : x >= y

UpperChars == <<"A","B","C","D","E","F","G","H","I","J","K","L","M","N","O","P","Q","R","S","T","U","V","W","X","Y","Z">>
LowerChars == <<"a","b","c","d","e","f","g","h","i","j","k","l","m","n","o","p","q","r","s","t","u","v","w","x","y","z">>

\* The lower-case letter of each upper-case letter.
LowerOf ==
    [c \in {UpperChars[i] : i \in 1..Len(UpperChars)} |->
        LowerChars[CHOOSE i \in 1..Len(UpperChars) : UpperChars[i] = c]]

\* str.lower() of one character.
LowerChar(c) == IF c \in DOMAIN LowerOf THEN LowerOf[c] ELSE c

\* str.lower()
Lower(s) == [i \in 1..Len(s) |-> LowerChar(s[i])]

\* The characters str.strip() removes and str.split() splits at.
Whitespace == {" ", "\n", "\r", "\t"}

\* The line boundaries of str.splitlines() that occur in the texts modelled.
LineBreaks == {"\n", "\r"}

\* The first index from i on of a character of s in cs, Len(s) + 1 without one.
RECURSIVE Find(_, _, _)
Find(s, cs, i) ==
    IF i > Len(s) \/ s[i] \in cs THEN i ELSE Find(s, cs, i + 1)

\* The first index from i on of a character of s outside cs, Len(s) + 1 without one.
RECURSIVE Skip(_, _, _)
Skip(s, cs, i) ==
    IF i > Len(s) \/ s[i] \notin cs THEN i ELSE Skip(s, cs, i + 1)

\* The last index up to i of a character of s outside cs, 0 without one.
RECURSIVE SkipBack(_, _, _)
SkipBack(s, cs, i) ==
    IF i < 1 \/ s[i] \notin cs THEN i ELSE SkipBack(s, cs, i - 1)

\* s.strip(cs)
StripChars(s, cs) == SubSeq(s, Skip(s, cs, 1), SkipBack(s, cs, Len(s)))

\* str.strip()
Strip(s) == StripChars(s, Whitespace)

\* k in t, for two str
Contains(k, t) ==
    \E i \in 0..(Len(t) - Len(k)) : \A j \in 1..Len(k) : t[i + j] = k[j]

\* s.startswith(p)
StartsWith(s, p) == Len(s) >= Len(p) /\ \A j \in 1..Len(p) : s[j] = p[j]

\* str.splitlines(): a "\r\n" pair is one boundary, and a text that ends with a
\* boundary has no empty last line.
RECURSIVE SplitLines(_)
SplitLines(s) ==
    IF s = <<>> THEN <<>>
    ELSE LET i == Find(s, LineBreaks, 1)
             n == IF i < Len(s) /\ s[i] = "\r" /\ s[i + 1] = "\n"
                  THEN i + 1 ELSE i
         IN  IF i > Len(s) THEN <<s>>
             ELSE <<SubSeq(s, 1, i - 1)>> \o SplitLines(SubSeq(s, n + 1, Len(s)))

\* sep.join(parts)
RECURSIVE Join(_, _)
Join(parts, sep) ==
    IF parts = <<>> THEN <<>>
    ELSE IF Len(parts) = 1 THEN parts[1]
    ELSE parts[1] \o sep \o Join(Tail(parts), sep)

\* line.split(":", 1)[-1]: the text after the first ":", the whole line when it
\* has none.
AfterFirstColon(line) ==
    LET i == Find(line, {":"}, 1)
    IN  IF i > Len(line) THEN line ELSE SubSeq(line, i + 1, Len(line))

\* s[:n]
Prefix(s, n) == SubSeq(s, 1, IF Len(s) < n THEN Len(s) ELSE n)

\* --------------------------------------------------- classify_category

KwElectronics == <<<<"l","a","p","t","o","p">>, <<"p","h","o","n","e">>, <<"t","a","b","l","e","t">>, <<"t","v">>, <<"h","e","a","d","p","h","o","n","e","s">>>>
KwAutomobile  == <<<<"c","a","r">>, <<"b","i","k","e">>, <<"s","c","o","o","t","e","r">>, <<"t","r","u","c","k">>>>
KwFashion     == <<<<"s","h","i","r","t">>, <<"j","e","a","n","s">>, <<"d","r","e","s","s">>, <<"s","h","o","e","s">>, <<"s","n","e","a","k","e","r","s">>>>
KwSports      == <<<<"b","a","t">>, <<"b","a","l","l">>, <<"c","r","i","c","k","e","t">>, <<"t","e","n","n","i","s">>, <<"f","o","o","t","b","a","l","l">>>>
KwFurniture   == <<<<"s","o","f","a">>, <<"t","a","b","l","e">>, <<"c","h","a","i","r">>, <<"b","e","d">>>>
KwAppliances  == <<<<"f","r","i","d","g","e">>, <<"m","i","c","r","o","w","a","v","e">>, <<"w","a","s","h","i","n","g"," ","m","a","c","h","i","n","e">>>>
KwBooks       == <<<<"b","o","o","k">>, <<"n","o","v","e","l">>, <<"t","e","x","t","b","o","o","k">>>>
KwBeauty      == <<<<"m","a","k","e","u","p">>, <<"c","r","e","a","m">>, <<"p","e","r","f","u","m","e">>>>
KwToys        == <<<<"t","o","y">>, <<"d","o","l","l">>, <<"l","e","g","o">>>>

\* any(k in text for k in kws)
AnyIn(kws, text) == \E i \in 1..Len(kws) : Contains(kws[i], text)

\* text = f"{name} {desc}".lower()
ClassifyText(name, desc) == Lower(name \o <<" ">> \o desc)

\* A classifier whose Fashion and Automobile tests are in the other order.
classify_category_swapped(name, desc) ==
    LET text == ClassifyText(name, desc)
    IN  IF AnyIn(KwElectronics, text) THEN "Electronics"
        ELSE IF AnyIn(KwFashion, text) THEN "Fashion"
        ELSE IF AnyIn(KwAutomobile, text) THEN "Automobile"
        ELSE IF AnyIn(KwSports, text) THEN "Sports"
        ELSE IF AnyIn(KwFurniture, text) THEN "Furniture"
        ELSE IF AnyIn(KwAppliances, text) THEN "Appliances"
        ELSE IF AnyIn(KwBooks, text) THEN "Books"
        ELSE IF AnyIn(KwBeauty, text) THEN "Beauty"
        ELSE IF AnyIn(KwToys, text) THEN "Toys"
        ELSE "Other"

classify_category(name, desc) ==
    LET text == ClassifyText(name, desc)
    IN  IF AnyIn(KwElectronics, text) THEN "Electronics"
        ELSE IF AnyIn(KwAutomobile, text) THEN "Automobile"
        ELSE IF AnyIn(KwFashion, text) THEN "Fashion"
        ELSE IF AnyIn(KwSports, text) THEN "Sports"
        ELSE IF AnyIn(KwFurniture, text) THEN "Furniture"
        ELSE IF AnyIn(KwAppliances, text) THEN "Appliances"
        ELSE IF AnyIn(KwBooks, text) THEN "Books"
        ELSE IF AnyIn(KwBeauty, text) THEN "Beauty"
        ELSE IF AnyIn(KwToys, text) THEN "Toys"
        ELSE "Other"

\* ------------------------------------------------- the response parser

\* catalog_text = response.text.strip()
CatalogText(response_text) == Strip(response_text)

\* The indices of the lines of catalog_text whose lower-cased form starts with p.
LinesStarting(lines, p) ==
    {i \in 1..Len(lines) : StartsWith(Lower(lines[i]), p)}

\* A parser that takes the name from the last "product name" line.
ParseProductNameLast(catalog_text) ==
    LET lines == SplitLines(catalog_text)
        hits  == LinesStarting(lines, <<"p","r","o","d","u","c","t"," ","n","a","m","e">>)
    IN  IF hits = {} THEN <<"U","n","k","n","o","w","n">>
        ELSE Strip(AfterFirstColon(lines[Max(hits)]))

\* product_name = "Unknown"; for line in lines: if line.lower().startswith(
\* "product name"): product_name = line.split(":", 1)[-1].strip(); break
ParseProductName(catalog_text) ==
    LET lines == SplitLines(catalog_text)
        hits  == LinesStarting(lines, <<"p","r","o","d","u","c","t"," ","n","a","m","e">>)
    IN  IF hits = {} THEN <<"U","n","k","n","o","w","n">>
        ELSE Strip(AfterFirstColon(lines[Min(hits)]))

\* specs_section = ""; for i, line in enumerate(lines): if line.lower().
\* startswith("specifications"): specs_section = "\n".join(lines[i+1:]).strip(); break
ParseSpecs(catalog_text) ==
    LET lines == SplitLines(catalog_text)
        hits  == LinesStarting(lines, <<"s","p","e","c","i","f","i","c","a","t","i","o","n","s">>)
    IN  IF hits = {} THEN <<>>
        ELSE Strip(Join(SubSeq(lines, Min(hits) + 1, Len(lines)), <<"\n">>))

Marker == <<"R","e","q","u","i","r","e","s"," ","f","u","r","t","h","e","r"," ","i","n","f","o","r","m","a","t","i","o","n">>

\* The number of lines below which a specifications block is thin.
MinSpecLines == 5

\* An augmenter that is not run for a block of fewer than five lines.
NeedsScrapeNoCount(specs_section) ==
    \/ specs_section = <<>>
    \/ \E i \in 1..Len(SplitLines(specs_section)) :
          Contains(Marker, SplitLines(specs_section)[i])

\* needs_scrape = not specs_section or len(specs_section.splitlines()) < 5 or
\*     any("Requires further information" in line for line in ...)
NeedsScrape(specs_section) ==
    \/ specs_section = <<>>
    \/ Len(SplitLines(specs_section)) < MinSpecLines
    \/ \E i \in 1..Len(SplitLines(specs_section)) :
          Contains(Marker, SplitLines(specs_section)[i])

\* ------------------------------------------------------- scrape_specs

\* The largest number of snippets scrape_specs returns.
MaxSnippets == 5

\* The number of characters of the product name a snippet has to contain.
NamePrefixLen == 5

NoSpecsFound == <<"N","o"," ","d","e","t","a","i","l","e","d"," ","s","p","e","c","s"," ","f","o","u","n","d"," ","o","n","l","i","n","e",".">>
ScrapeFailed == <<"W","e","b"," ","s","c","r","a","p","i","n","g"," ","f","a","i","l","e","d",":"," ">>

\* What the search request and the parse of its page come to: an exception with
\* its str(e), or the get_text(strip=True) of the selected elements of the page.
Raised(msg)    == [kind |-> "raise", msg |-> msg, snippets |-> <<>>]
Page(snippets) == [kind |-> "page", msg |-> <<>>, snippets |-> snippets]

\* "\n".join(f"- {i}" for i in info)
RECURSIVE Bulleted(_)
Bulleted(info) ==
    IF info = <<>> THEN <<>>
    ELSE IF Len(info) = 1 THEN <<"-"," ">> \o info[1]
    ELSE <<"-"," ">> \o info[1] \o <<"\n">> \o Bulleted(Tail(info))

\* An augmenter that returns the empty string when no snippet matches.
scrape_specs_empty(product_name, outcome) ==
    IF outcome.kind = "raise" THEN ScrapeFailed \o outcome.msg
    ELSE LET key == Prefix(Lower(product_name), NamePrefixLen)
             Hit(s) == Contains(key, Lower(s))
             info == SelectSeq(outcome.snippets, Hit)
         IN  Bulleted(SubSeq(info, 1, Min({Len(info), MaxSnippets})))

\* What a call evaluates to when an exception leaves it.
Escaped == <<"exception">>

\* An augmenter that lets the failure of the search escape.
scrape_specs_raising(product_name, outcome) ==
    IF outcome.kind = "raise" THEN Escaped
    ELSE LET key == Prefix(Lower(product_name), NamePrefixLen)
             Hit(s) == Contains(key, Lower(s))
             info == SelectSeq(outcome.snippets, Hit)
         IN  IF info # <<>>
             THEN Bulleted(SubSeq(info, 1, Min({Len(info), MaxSnippets})))
             ELSE NoSpecsFound

scrape_specs(product_name, outcome) ==
    IF outcome.kind = "raise" THEN ScrapeFailed \o outcome.msg
    ELSE LET key == Prefix(Lower(product_name), NamePrefixLen)
             Hit(s) == Contains(key, Lower(s))
             info == SelectSeq(outcome.snippets, Hit)
         IN  IF info # <<>>
             THEN Bulleted(SubSeq(info, 1, Min({Len(info), MaxSnippets})))
             ELSE NoSpecsFound

\* ------------------------------------------------------------- base64

B64Alphabet ==
    <<"A","B","C","D","E","F","G","H","I","J","K","L","M","N","O","P","Q","R","S","T","U","V","W","X","Y","Z","a","b","c","d","e","f","g","h","i","j","k","l","m","n","o","p","q","r","s","t","u","v","w","x","y","z","0","1","2","3","4","5","6","7","8","9","+","/">>

\* The six bits each character of the alphabet stands for.
B64Value ==
    [c \in {B64Alphabet[i] : i \in 1..Len(B64Alphabet)} |->
        (CHOOSE i \in 1..Len(B64Alphabet) : B64Alphabet[i] = c) - 1]

B64Char(n) == B64Alphabet[n + 1]
B64Index(c) == B64Value[c]
IsB64Char(c) == c \in DOMAIN B64Value

\* base64.b64encode(data).decode("utf-8")
RECURSIVE B64Encode(_)
B64Encode(data) ==
    IF data = <<>> THEN <<>>
    ELSE IF Len(data) = 1 THEN
        LET n == data[1] * 65536
        IN  <<B64Char(n \div 262144), B64Char((n \div 4096) % 64), "=", "=">>
    ELSE IF Len(data) = 2 THEN
        LET n == data[1] * 65536 + data[2] * 256
        IN  <<B64Char(n \div 262144), B64Char((n \div 4096) % 64),
              B64Char((n \div 64) % 64), "=">>
    ELSE
        LET n == data[1] * 65536 + data[2] * 256 + data[3]
        IN  <<B64Char(n \div 262144), B64Char((n \div 4096) % 64),
              B64Char((n \div 64) % 64), B64Char(n % 64)>>
            \o B64Encode(SubSeq(data, 4, Len(data)))

\* The bytes of full groups of four base64 characters, then of a last group of
\* two or three.
RECURSIVE B64Groups(_)
B64Groups(cs) ==
    IF Len(cs) < 2 THEN <<>>
    ELSE IF Len(cs) = 2 THEN
        LET n == B64Index(cs[1]) * 262144 + B64Index(cs[2]) * 4096
        IN  <<n \div 65536>>
    ELSE IF Len(cs) = 3 THEN
        LET n == B64Index(cs[1]) * 262144 + B64Index(cs[2]) * 4096
                 + B64Index(cs[3]) * 64
        IN  <<n \div 65536, (n \div 256) % 256>>
    ELSE
        LET n == B64Index(cs[1]) * 262144 + B64Index(cs[2]) * 4096
                 + B64Index(cs[3]) * 64 + B64Index(cs[4])
        IN  <<n \div 65536, (n \div 256) % 256, n % 256>>
            \o B64Groups(SubSeq(cs, 5, Len(cs)))

\* What base64.b64decode raises binascii.Error for: after the characters outside
\* the alphabet are dropped, a length that is no multiple of four.
B64Malformed(s) ==
    LET IsData(c) == IsB64Char(c) \/ c = "="
    IN  Len(SelectSeq(s, IsData)) % 4 # 0

\* base64.b64decode(s), for an s that is not B64Malformed
B64Decode(s) == B64Groups(SelectSeq(s, IsB64Char))

\* ------------------------------------------------------------ images

\* The first byte of an image file, by which Image.open recognizes it.
ImageMagic == 137

\* Image.open: a payload is an image when it starts with the magic byte, which
\* its width and its height (both positive) follow.
IsImage(data) ==
    Len(data) >= 3 /\ data[1] = ImageMagic /\ data[2] > 0 /\ data[3] > 0

ImgWidth(data)  == data[2]
ImgHeight(data) == data[3]

\* --------------------------------------------------- secure_filename

FilenameChars ==
    {UpperChars[i] : i \in 1..26} \cup {LowerChars[i] : i \in 1..26}
    \cup {"0", "1", "2", "3", "4", "5", "6", "7", "8", "9", "_", ".", "-"}

\* str.split(): the maximal runs of characters that are not whitespace.
RECURSIVE SplitWords(_)
SplitWords(s) ==
    LET t == Strip(s)
        i == Find(t, Whitespace, 1)
    IN  IF t = <<>> THEN <<>>
        ELSE IF i > Len(t) THEN <<t>>
        ELSE <<SubSeq(t, 1, i - 1)>> \o SplitWords(SubSeq(t, i + 1, Len(t)))

\* werkzeug's secure_filename: path separators become spaces, the words are
\* joined with "_", every character outside A-Za-z0-9_.- is dropped, and leading
\* and trailing dots and underscores are stripped.
secure_filename(name) ==
    LET spaced == [i \in 1..Len(name) |-> IF name[i] = "/" THEN " " ELSE name[i]]
        joined == Join(SplitWords(spaced), <<"_">>)
        IsSafe(c) == c \in FilenameChars
    IN  StripChars(SelectSeq(joined, IsSafe), {".", "_"})

\* --------------------------------------------------------- export_pdf

\* A4 in 1/100 point: width, height = A4
PageWidth == 59528
PageHeight == 84189
\* y = height - 40
TopMargin == 4000
\* img_width = width - 80
SideMargins == 8000
\* if img_height > 300
MaxImgHeight == 30000
\* y -= img_height + 10
ImgGap == 1000
\* if y < 100, in the loop over the lines
TextFloor == 10000
\* y -= 12
LineStep == 1200
\* y -= 40, after the text
RecordGap == 4000
\* if y < 200, after a record
RecordFloor == 20000

\* The canvas while the records are drawn: the cursor y, the number of the page
\* being drawn, and the draw operations so far.
NewCanvas == [y |-> PageHeight - TopMargin, page |-> 1, ops |-> <<>>]

\* base64.b64decode and Image.open both succeed on the record's image_base64.
Decodable(entry) ==
    /\ ~B64Malformed(entry.image_base64)
    /\ IsImage(B64Decode(entry.image_base64))

\* img_height = img_width / aspect, capped at 300
ScaledHeight(data) ==
    LET h == ((PageWidth - SideMargins) * ImgHeight(data)) \div ImgWidth(data)
    IN  IF h > MaxImgHeight THEN MaxImgHeight ELSE h

\* img_width = width - 80, or img_height * aspect under the cap
ScaledWidth(data) ==
    LET h == ((PageWidth - SideMargins) * ImgHeight(data)) \div ImgWidth(data)
    IN  IF h > MaxImgHeight
        THEN (MaxImgHeight * ImgWidth(data)) \div ImgHeight(data)
        ELSE PageWidth - SideMargins

\* c.showPage() and y = height - 40
NewPage(cv) == [cv EXCEPT !.y = PageHeight - TopMargin, !.page = @ + 1]

\* for line in entry["catalog_entry"].splitlines(): if y < 100: c.drawText(...);
\* c.showPage(); ...; y = height - 40;  text_obj.textLine(line); y -= 12
RECURSIVE DrawLines(_, _, _, _)
DrawLines(cv, rec, lines, j) ==
    IF j > Len(lines) THEN cv
    ELSE IF cv.y < TextFloor THEN DrawLines(NewPage(cv), rec, lines, j)
    ELSE LET op == [kind |-> "text", rec |-> rec, page |-> cv.page, y |-> cv.y,
                    h |-> LineStep, line |-> j]
         IN  DrawLines([cv EXCEPT !.ops = Append(@, op), !.y = @ - LineStep],
                       rec, lines, j + 1)

\* The image and the text of one decodable record, and the gap after it.
DrawEntry(cv, rec, entry) ==
    LET data == B64Decode(entry.image_base64)
        h == ScaledHeight(data)
        img == [kind |-> "image", rec |-> rec, page |-> cv.page, y |-> cv.y,
                h |-> h, line |-> 0]
        drawn == [cv EXCEPT !.ops = Append(@, img), !.y = @ - (h + ImgGap)]
        text == DrawLines(drawn, rec, SplitLines(entry.catalog_entry), 1)
        after == [text EXCEPT !.y = @ - RecordGap]
    IN  IF after.y < RecordFloor THEN NewPage(after) ELSE after

\* An exporter that moves the cursor down before it decodes the image.
RenderEntryEarlyGap(cv, rec, entry) ==
    IF Decodable(entry) THEN DrawEntry(cv, rec, entry)
    ELSE [cv EXCEPT !.y = @ - ImgGap]

\* One iteration of the loop over the entries: try: ... except Exception: continue
RenderEntry(cv, rec, entry) ==
    IF Decodable(entry) THEN DrawEntry(cv, rec, entry) ELSE cv

\* The loop over the entries, from entry number "from" on; "ids" gives each
\* entry's place in the store.
RECURSIVE RenderFrom(_, _, _, _)
RenderFrom(cv, entries, ids, from) ==
    IF from > Len(entries) THEN cv
    ELSE RenderFrom(RenderEntry(cv, ids[from], entries[from]), entries, ids,
                    from + 1)

\* export_pdf: entries = list(collection.find({})), the loop, c.save() and
\* send_file.
Render(entries) ==
    LET cv == RenderFrom(NewCanvas, entries, [i \in 1..Len(entries) |-> i], 1)
    IN  [status |-> 200, y |-> cv.y, pages |-> cv.page, ops |-> cv.ops,
         records |-> Len(entries)]

NoPdf == [status |-> 0, y |-> 0, pages |-> 0, ops |-> <<>>, records |-> 0]

\* -------------------------------------------------- generate_catalog

NoListing == [sent |-> FALSE, body |-> <<>>]

\* A step that sends neither a listing nor a document.
NoResponse == listed' = NoListing /\ pdf' = NoPdf

\* "\n\n<U+1F50E> Additional Info from Web:\n"; "*" stands for the emoji.
WebInfoHeader == <<"\n","\n","*"," ","A","d","d","i","t","i","o","n","a","l"," ","I","n","f","o"," ","f","r","o","m"," ","W","e","b",":","\n">>

\* catalog_text + (header + web_info if web_info else "")
CatalogEntry(catalog_text, web_info) ==
    IF web_info # <<>> THEN catalog_text \o WebInfoHeader \o web_info
    ELSE catalog_text

\* The record generate_catalog inserts (its timestamp, which nothing reads, is
\* left out).
Record(filename, product_name, category, catalog_text, web_info, data) ==
    [filename         |-> filename,
     product_name     |-> product_name,
     category         |-> category,
     catalog_entry    |-> CatalogEntry(catalog_text, web_info),
     web_scraped_info |-> web_info,
     image_base64     |-> B64Encode(data)]

\* results.append({"filename": ..., "product_name": ..., "category": ...,
\*                 "catalog_entry": record["catalog_entry"]})
SuccessEntry(record) ==
    [filename      |-> record.filename,
     product_name  |-> record.product_name,
     category      |-> record.category,
     catalog_entry |-> record.catalog_entry]

\* results.append({"filename": file.filename, "error": str(e)})
ErrorEntry(file, why) == [filename |-> file.filename, error |-> why]

IsError(entry) == "error" \in DOMAIN entry

\* The locals of one iteration of the loop over the files.
NoLocals ==
    [filename      |-> <<>>,   \* secure_filename(file.filename)
     image         |-> <<>>,   \* what Image.open found in the file
     given         |-> <<>>,   \* the image the model was given
     catalog_text  |-> <<>>,
     product_name  |-> <<>>,
     specs_section |-> <<>>,
     web_info      |-> <<>>,
     scraped       |-> FALSE,  \* scrape_specs was called
     searches      |-> 0]      \* requests.get calls of this iteration

\* A request thread before its request: the files of the request are added to
\* "files" as the loop reaches them, "n" is how many the request holds.
IdleThread ==
    [pc |-> "idle", n |-> 0, files |-> <<>>, results |-> <<>>, faults |-> <<>>,
     status |-> 0, loc |-> NoLocals]

\* The end of one iteration: the entry is appended, and the loop goes on to the
\* next file or, after the last, to the return.
Iterated(t, entry, fault) ==
    [t EXCEPT !.results = Append(@, entry),
              !.faults = Append(@, fault),
              !.loc = NoLocals,
              !.pc = IF Len(t.results) + 1 = t.n THEN "respond" ELSE "save"]

\* A handler that has no try around the iteration: the exception ends the request.
FailedAborting(t, file, why) ==
    [t EXCEPT !.faults = Append(@, why), !.loc = NoLocals, !.pc = "done",
              !.status = 500, !.results = <<>>]

\* except Exception as e: results.append({"filename": file.filename, "error": str(e)})
Failed(t, file, why) == Iterated(t, ErrorEntry(file, why), why)

\* POST /generate_catalog with n files in the field "images"; without the field
\* the answer is {"error": "No images provided"} with status 400, and no list
\* of results.
PostGenerateCatalog(r, n) ==
    /\ req[r].pc = "idle"
    /\ req' = [req EXCEPT ![r] =
                 IF n = 0
                 THEN [@ EXCEPT !.pc = "done", !.status = 400]
                 ELSE [@ EXCEPT !.pc = "save", !.n = n]]
    /\ NoResponse /\ UNCHANGED <<disk, store, audit, cls, prs>>

\* filename = secure_filename(file.filename); file.save(os.path.join(UPLOAD_FOLDER,
\* filename)): an empty filename names the folder itself, and the save raises.
SaveUpload(r, file) ==
    /\ req[r].pc = "save"
    /\ LET t == [req[r] EXCEPT !.files = Append(@, file)]
           filename == secure_filename(file.filename)
       IN  IF filename = <<>>
           THEN /\ req' = [req EXCEPT ![r] = Failed(t, file, "save")]
                /\ disk' = disk
           ELSE /\ req' = [req EXCEPT ![r] =
                            [t EXCEPT !.pc = "open", !.loc.filename = filename]]
                /\ disk' = (filename :> file.data) @@ disk
    /\ NoResponse /\ UNCHANGED <<store, audit, cls, prs>>

\* image = Image.open(filepath): reads what the file holds now.
OpenImage(r) ==
    /\ req[r].pc = "open"
    /\ LET t == req[r]
           file == t.files[Len(t.files)]
           data == disk[t.loc.filename]
       IN  req' = [req EXCEPT ![r] =
                     IF IsImage(data)
                     THEN [t EXCEPT !.pc = "generate", !.loc.image = data]
                     ELSE Failed(t, file, "decode")]
    /\ NoResponse /\ UNCHANGED <<disk, store, audit, cls, prs>>

\* response = model.generate_content([prompt, image]) and the parse of its text.
\* Image.open is lazy: the pixels are read from the file when the model call
\* needs them, so the model is given what the file held at the open or what it
\* holds now. The call raises, or returns a text.
GenerateContent(r, outcome) ==
    /\ req[r].pc = "generate"
    /\ LET t == req[r]
           file == t.files[Len(t.files)]
       IN  \E given \in {t.loc.image, disk[t.loc.filename]} :
             req' = [req EXCEPT ![r] =
               IF outcome.kind = "raise" \/ ~IsImage(given)
               THEN Failed(t, file, "model")
               ELSE LET catalog_text == CatalogText(outcome.text)
                        specs_section == ParseSpecs(catalog_text)
                    IN  [t EXCEPT
                           !.loc.given = given,
                           !.loc.catalog_text = catalog_text,
                           !.loc.product_name = ParseProductName(catalog_text),
                           !.loc.specs_section = specs_section,
                           !.pc = IF NeedsScrape(specs_section)
                                  THEN "scrape" ELSE "persist"]]
    /\ NoResponse /\ UNCHANGED <<disk, store, audit, cls, prs>>

\* web_info = scrape_specs(product_name) if needs_scrape else "": one search
\* request; an exception that left scrape_specs would end the iteration in the
\* handler's except.
ScrapeSpecs(r, outcome) ==
    /\ req[r].pc = "scrape"
    /\ LET t == req[r]
           file == t.files[Len(t.files)]
           web_info == scrape_specs(t.loc.product_name, outcome)
       IN  req' = [req EXCEPT ![r] =
                     IF web_info = Escaped THEN Failed(t, file, "scrape")
                     ELSE [t EXCEPT !.loc.web_info = web_info,
                                    !.loc.scraped = TRUE,
                                    !.loc.searches = @ + 1,
                                    !.pc = "persist"]]
    /\ NoResponse /\ UNCHANGED <<disk, store, audit, cls, prs>>

\* A store that keeps one record per filename: a record with the filename of an
\* earlier one takes its place.
replace_one(records, record) ==
    IF \E k \in 1..Len(records) : records[k].filename = record.filename
    THEN [k \in 1..Len(records) |->
            IF records[k].filename = record.filename THEN record ELSE records[k]]
    ELSE Append(records, record)

\* collection.insert_one(record), when it does not raise: the record is added
\* behind the records of the collection.
insert_one(records, record) == Append(records, record)

\* category = classify_category(product_name, catalog_text); the file is read
\* again and encoded; collection.insert_one(record), which raises or inserts;
\* results.append(...)
Persist(r, inserted) ==
    /\ req[r].pc = "persist"
    /\ LET t == req[r]
           file == t.files[Len(t.files)]
           category == classify_category(t.loc.product_name, t.loc.catalog_text)
           record == Record(t.loc.filename, t.loc.product_name, category,
                            t.loc.catalog_text, t.loc.web_info,
                            disk[t.loc.filename])
       IN  IF inserted
           THEN /\ store' = insert_one(store, record)
                /\ audit' = Append(audit,
                              [thread |-> r, item |-> Len(t.files),
                               uploaded |-> file.data, loc |-> t.loc])
                /\ req' = [req EXCEPT ![r] =
                             Iterated(t, SuccessEntry(record), "none")]
           ELSE /\ req' = [req EXCEPT ![r] = Failed(t, file, "store")]
                /\ UNCHANGED <<store, audit>>
    /\ NoResponse /\ UNCHANGED <<disk, cls, prs>>

\* return jsonify(results)
Respond(r) ==
    /\ req[r].pc = "respond"
    /\ req' = [req EXCEPT ![r] = [@ EXCEPT !.pc = "done", !.status = 200]]
    /\ NoResponse /\ UNCHANGED <<disk, store, audit, cls, prs>>

\* -------------------------------------------------------- get_entries

\* collection.find({}, {"_id": 0}): every record, without the store's identifier.
\* The identifier of a record is its place in "store", so the listing is the
\* sequence of the records' fields.
Listing(records) ==
    [i \in 1..Len(records) |->
        [f \in DOMAIN records[i] \ {"_id"} |-> records[i][f]]]

\* GET /entries
GetEntries ==
    /\ listed' = [sent |-> TRUE, body |-> Listing(store)]
    /\ pdf' = NoPdf
    /\ UNCHANGED <<disk, store, audit, req, cls, prs>>

\* GET /export_pdf
ExportPdf ==
    /\ pdf' = Render(store)
    /\ listed' = NoListing
    /\ UNCHANGED <<disk, store, audit, req, cls, prs>>

\* ------------------------------------------------------------ inputs

\* Image payloads: wide (4:1) and square (1:1); and bytes that are no image.
ImgWide   == <<ImageMagic, 4, 1>>
ImgSquare == <<ImageMagic, 1, 1>>
NotImage  == <<80, 75>>

Upload(filename, data) == [filename |-> filename, data |-> data]

\* Two uploads with different names and the same sanitized name, a payload that
\* is no image, and a name that sanitizes to the empty string.
Uploads ==
    {Upload(<<"a",".","p","n","g">>, ImgWide), Upload(<<".",".","/","a",".","p","n","g">>, ImgSquare),
     Upload(<<"b",".","p","n","g">>, NotImage), Upload(<<".",".">>, ImgWide)}

\* Two images uploaded under names with the same sanitized name.
SameNameUploads ==
    {Upload(<<"a",".","p","n","g">>, ImgWide), Upload(<<".",".","/","a",".","p","n","g">>, ImgSquare)}

Returned(text) == [kind |-> "text", text |-> text]
ModelRaised == [kind |-> "raise", text |-> <<>>]

\* A response with a name and five specification lines.
TextFull ==
    <<"P","r","o","d","u","c","t"," ","N","a","m","e",":"," ","P","h","o","n","e"," ","X","\n","C","a","t","e","g","o","r","y",":"," ","E","l","e","c","t","r","o","n","i","c","s","\n","S","p","e","c","i","f","i","c","a","t","i","o","n","s",":","\n","-"," ","a",":"," ","1","\n","-"," ","b",":"," ","2","\n","-"," ","c",":"," ","3","\n","-"," ","d",":"," ","4","\n","-"," ","e",":"," ","5","\n">>
\* Five specification lines, one of them with the marker.
TextMarker ==
    <<"P","r","o","d","u","c","t"," ","N","a","m","e",":"," ","D","e","s","k"," ","L","a","m","p","\n","S","p","e","c","i","f","i","c","a","t","i","o","n","s",":","\n","-"," ","a",":"," ","1","\n","-"," ","b",":"," ","2","\n","-"," ","c",":"," ","3","\n","-"," ","d",":"," ","4","\n","-"," ","e",":"," ","R","e","q","u","i","r","e","s"," ","f","u","r","t","h","e","r"," ","i","n","f","o","r","m","a","t","i","o","n">>
\* Two specification lines.
TextThin == <<" "," ","P","r","o","d","u","c","t"," ","N","a","m","e",":"," ","S","o","f","a"," ","B","e","d"," ","\n","S","p","e","c","i","f","i","c","a","t","i","o","n","s",":","\n","-"," ","a",":"," ","1","\n","-"," ","b",":"," ","2">>
\* Neither a name nor a specifications line.
TextPlain == <<"A"," ","r","e","d"," ","t","o","y"," ","c","a","r">>
\* Only whitespace.
TextBlank == <<" ","\n">>

ScrapeTimeout == Raised(<<"t","i","m","e","d"," ","o","u","t">>)
ScrapeError   == Raised(<<>>)
ScrapeNoHits  == Page(<<<<"B","u","y"," ","l","a","m","p","s"," ","o","n","l","i","n","e">>>>)
ScrapeHits    == Page(<<<<"S","o","f","a"," ","B","e","d",":"," ","3"," ","s","e","a","t","s">>, <<"B","u","y"," ","l","a","m","p","s"," ","o","n","l","i","n","e">>, <<"S","O","F","A"," ","2","0","0"," ","c","m">>, <<"U","n","k","n","o","w","n"," ","b","r","a","n","d">>>>)

\* ------------------------------------------------------- the server

Threads == {1, 2}

\* The files of the requests received so far.
Uploaded == req[1].n + req[2].n

ServerInit ==
    /\ disk = [name \in {} |-> <<>>]
    /\ store = <<>>
    /\ audit = <<>>
    /\ req = [r \in Threads |-> IdleThread]
    /\ listed = NoListing
    /\ pdf = NoPdf
    /\ cls = [pc |-> "off"]
    /\ prs = [pc |-> "off"]

\* The steps of the request threads T that serve POST /generate_catalog: requests
\* of at most "most" files each and "cap" files in all, with the uploads U, the
\* outcomes M of the model call and the outcomes S of the search.
Uploading(T, most, cap, U, M, S) ==
    \/ \E r \in T : \E n \in 0..most :
          Uploaded + n <= cap /\ PostGenerateCatalog(r, n)
    \/ \E r \in T : \E file \in U : SaveUpload(r, file)
    \/ \E r \in T : OpenImage(r)
    \/ \E r \in T : \E outcome \in M : GenerateContent(r, outcome)
    \/ \E r \in T : \E outcome \in S : ScrapeSpecs(r, outcome)
    \/ \E r \in T : \E inserted \in BOOLEAN : Persist(r, inserted)
    \/ \E r \in T : Respond(r)

\* The two GET endpoints that read the store.
Reading == GetEntries \/ ExportPdf

AllModelOutcomes ==
    {ModelRaised, Returned(TextFull), Returned(TextMarker), Returned(TextThin),
     Returned(TextPlain), Returned(TextBlank)}
AllScrapeOutcomes == {ScrapeTimeout, ScrapeError, ScrapeNoHits, ScrapeHits}

Init == ServerInit

\* Two request threads that run concurrently, beside the GET endpoints; their
\* requests hold at most MaxUploads files in all, which have the same sanitized
\* name.
Next ==
    \/ Uploading(Threads, MaxUploads, MaxUploads, SameNameUploads,
                 {ModelRaised, Returned(TextThin)}, {ScrapeTimeout})
    \/ Reading
Spec == Init /\ [][Next]_vars

\* One request of at most MaxFiles files.
NextBatch ==
    Uploading({1}, MaxFiles, MaxFiles, Uploads,
              {ModelRaised, Returned(TextFull), Returned(TextThin)},
              {ScrapeTimeout, ScrapeHits})
SpecBatch == Init /\ [][NextBatch]_vars

\* One request of one file, with every outcome of the model call and of the
\* search, beside the GET endpoints.
NextItem ==
    \/ Uploading({1}, 1, 1, Uploads, AllModelOutcomes, AllScrapeOutcomes)
    \/ Reading
SpecItem == Init /\ [][NextItem]_vars

\* No request is served: the state of the server beside a run of one function.
ServerOff ==
    /\ disk = [name \in {} |-> <<>>]
    /\ audit = <<>>
    /\ req = [r \in Threads |-> IdleThread]
    /\ listed = NoListing
    /\ pdf = NoPdf

\* ------------------------------------------- classify_category alone

ClassifyNames == {<<>>, <<"W","a","s","h","i","n","g">>, <<"l","a","p">>, <<"T","o","y"," ","C","a","r">>, <<"D","e","s","k">>}

ClassifyWords ==
    {<<"m","a","c","h","i","n","e">>, <<"t","o","p">>, <<"T","a","b","l","e","t">>, <<"f","o","o","t","b","a","l","l">>, <<"s","h","i","r","t">>, <<"t","r","u","c","k">>,
     <<"t","e","x","t","b","o","o","k">>, <<"c","r","e","a","m">>, <<"d","o","l","l">>, <<"g","r","e","y">>}

\* Descriptions of at most MaxWords words.
ClassifyDescs ==
    {Join(ws, <<" ">>) : ws \in UNION {[1..n -> ClassifyWords] : n \in 0..MaxWords}}

InitClassify ==
    /\ ServerOff /\ store = <<>> /\ prs = [pc |-> "off"]
    /\ cls \in {[pc |-> "call", name |-> name, desc |-> desc, result |-> ""] :
                  name \in ClassifyNames, desc \in ClassifyDescs}

Classify ==
    /\ cls.pc = "call"
    /\ cls' = [cls EXCEPT !.pc = "return",
                          !.result = classify_category(cls.name, cls.desc)]
    /\ UNCHANGED <<disk, store, audit, req, listed, pdf, prs>>

SpecClassify == InitClassify /\ [][Classify]_vars

\* ------------------------------------------------- the parser alone

ParseLines ==
    {<<"P","r","o","d","u","c","t"," ","N","a","m","e",":"," ","W","i","d","g","e","t"," ","X">>, <<"p","r","o","d","u","c","t"," ","n","a","m","e"," ",":"," ","A",":","B"," ">>, <<"P","R","O","D","U","C","T"," ","N","A","M","E"," ","C","a","r">>,
     <<" ","P","r","o","d","u","c","t"," ","N","a","m","e",":"," ","Y">>, <<"S","p","e","c","i","f","i","c","a","t","i","o","n","s",":">>, <<"s","p","e","c","i","f","i","c","a","t","i","o","n","s"," ","-"," ","C">>,
     <<" "," ","-"," ","A",":"," ","1">>, <<"-"," ","B",":"," ","2","\r">>, <<>>}

\* Responses of at most MaxLines lines.
ParseResponses ==
    {Join(ls, <<"\n">>) : ls \in UNION {[1..n -> ParseLines] : n \in 0..MaxLines}}

InitParse ==
    /\ ServerOff /\ store = <<>> /\ cls = [pc |-> "off"]
    /\ prs \in {[pc |-> "call", response |-> text, catalog_text |-> <<>>,
                 product_name |-> <<>>, specs_section |-> <<>>] :
                  text \in ParseResponses}

\* Lines 96 to 111 of generate_catalog on one response text.
ParseResponse ==
    /\ prs.pc = "call"
    /\ LET catalog_text == CatalogText(prs.response)
       IN  prs' = [prs EXCEPT !.pc = "return",
                              !.catalog_text = catalog_text,
                              !.product_name = ParseProductName(catalog_text),
                              !.specs_section = ParseSpecs(catalog_text)]
    /\ UNCHANGED <<disk, store, audit, req, listed, pdf, cls>>

SpecParse == InitParse /\ [][ParseResponse]_vars

\* ------------------------------------------------ export_pdf alone

\* A catalog entry of k lines.
LinesOfText(k) == Join([i \in 1..k |-> <<"-"," ","x">>], <<"\n">>)

Stored(data64, lines) ==
    [filename |-> <<"a",".","p","n","g">>, product_name |-> <<"U","n","k","n","o","w","n">>, category |-> "Other",
     catalog_entry |-> LinesOfText(lines), web_scraped_info |-> <<>>,
     image_base64 |-> data64]

\* Records with a wide or a square image and a short, a medium or a long text,
\* a record whose image data is no base64, and one whose image data is no image.
ExportRecords ==
    {Stored(B64Encode(data), lines) :
        data \in {ImgWide, ImgSquare}, lines \in {1, 15, 40}}
    \cup {Stored(<<"A">>, 1), Stored(B64Encode(NotImage), 15)}

InitExport ==
    /\ ServerOff /\ cls = [pc |-> "off"] /\ prs = [pc |-> "off"]
    /\ store \in UNION {[1..n -> ExportRecords] : n \in 0..MaxRecords}

SpecExport == InitExport /\ [][ExportPdf]_vars

\* ------------------------------------------------------------ claims

Labels ==
    {"Electronics", "Automobile", "Fashion", "Sports", "Furniture",
     "Appliances", "Books", "Beauty", "Toys", "Other"}

\* The nine keyword groups in their fixed order.
Groups ==
    <<[label |-> "Electronics", kws |-> KwElectronics],
      [label |-> "Automobile",  kws |-> KwAutomobile],
      [label |-> "Fashion",     kws |-> KwFashion],
      [label |-> "Sports",      kws |-> KwSports],
      [label |-> "Furniture",   kws |-> KwFurniture],
      [label |-> "Appliances",  kws |-> KwAppliances],
      [label |-> "Books",       kws |-> KwBooks],
      [label |-> "Beauty",      kws |-> KwBeauty],
      [label |-> "Toys",        kws |-> KwToys]>>

\* The label of the first group with a keyword occurring in text, "Other"
\* without one.
FirstGroupLabel(text) ==
    LET hits == {g \in 1..Len(Groups) :
                   \E i \in 1..Len(Groups[g].kws) : Contains(Groups[g].kws[i], text)}
    IN  IF hits = {} THEN "Other"
        ELSE Groups[CHOOSE g \in hits : \A h \in hits : g <= h].label

\* C4 as stated: classify_category(name, desc) is the label of the first group
\* with a keyword occurring in the lower-cased concatenation of name and desc
\* ("Other" without one), and is one of the ten labels.
C4_ConcatenationOriginal ==
    cls.pc = "return" =>
        /\ cls.result = FirstGroupLabel(Lower(cls.name \o cls.desc))
        /\ cls.result \in Labels

\* C4, amended: classify_category(name, desc) is the label of the first of the
\* nine groups, in their fixed order, with a keyword occurring in the lower-cased
\* text made of name, one space and desc, "Other" when no group has one; a text
\* that matches two groups gets the earlier group's label, and the result is one
\* of the ten labels.
C4_FirstMatchWins ==
    cls.pc = "return" =>
        /\ cls.result = FirstGroupLabel(Lower(cls.name \o <<" ">> \o cls.desc))
        /\ cls.result \in Labels

\* A name that matches Automobile and Toys with a description that matches
\* Fashion: the result is the earliest of the three, Automobile.
C4_Witness ==
    /\ cls.pc = "return"
    /\ cls.name = <<"T","o","y"," ","C","a","r">>
    /\ cls.desc = <<"s","h","i","r","t">>
    /\ cls.result = "Automobile"

\* The first line of lines whose lower-cased form starts with p is line i.
IsFirstStarting(lines, p, i) ==
    /\ i \in 1..Len(lines)
    /\ StartsWith(Lower(lines[i]), p)
    /\ \A j \in 1..(i - 1) : ~StartsWith(Lower(lines[j]), p)

NoneStarting(lines, p) ==
    \A i \in 1..Len(lines) : ~StartsWith(Lower(lines[i]), p)

\* The first ":" of line is at k.
IsFirstColon(line, k) ==
    /\ k \in 1..Len(line)
    /\ line[k] = ":"
    /\ \A m \in 1..(k - 1) : line[m] # ":"

\* lines[from], ..., lines[Len(lines)] with a line break between two lines.
RECURSIVE JoinedFrom(_, _)
JoinedFrom(lines, from) ==
    IF from > Len(lines) THEN <<>>
    ELSE IF from = Len(lines) THEN lines[from]
    ELSE lines[from] \o <<"\n">> \o JoinedFrom(lines, from + 1)

\* C5 as stated: the product name is the trimmed text after the first ":" of the
\* first "product name" line ("Unknown" without such a line), and the
\* specifications block is the text of all lines after the first
\* "specifications" line joined with line breaks ("" without such a line). Of a
\* "product name" line without a ":" this says nothing.
C5_ParserOriginal ==
    prs.pc = "return" =>
        LET lines == SplitLines(prs.catalog_text)
        IN  /\ NoneStarting(lines, <<"p","r","o","d","u","c","t"," ","n","a","m","e">>)
                 => prs.product_name = <<"U","n","k","n","o","w","n">>
            /\ \A i \in 1..Len(lines) : \A k \in 1..Len(lines[i]) :
                 IsFirstStarting(lines, <<"p","r","o","d","u","c","t"," ","n","a","m","e">>, i)
                 /\ IsFirstColon(lines[i], k)
                 => prs.product_name = Strip(SubSeq(lines[i], k + 1, Len(lines[i])))
            /\ NoneStarting(lines, <<"s","p","e","c","i","f","i","c","a","t","i","o","n","s">>)
                 => prs.specs_section = <<>>
            /\ \A i \in 1..Len(lines) :
                 IsFirstStarting(lines, <<"s","p","e","c","i","f","i","c","a","t","i","o","n","s">>, i)
                 => prs.specs_section = JoinedFrom(lines, i + 1)

\* C5, amended: the product name is the trimmed text after the first ":" of the
\* first line whose lower-cased form starts with "product name", the whole
\* trimmed line when that line has no ":", and "Unknown" when no line starts that
\* way; the specifications block is the text of all lines after the first line
\* whose lower-cased form starts with "specifications", joined with line breaks
\* and then trimmed of leading and trailing whitespace, and the empty string when
\* no such line exists.
C5_Parser ==
    prs.pc = "return" =>
        LET lines == SplitLines(prs.catalog_text)
        IN  /\ NoneStarting(lines, <<"p","r","o","d","u","c","t"," ","n","a","m","e">>)
                 => prs.product_name = <<"U","n","k","n","o","w","n">>
            /\ \A i \in 1..Len(lines) :
                 IsFirstStarting(lines, <<"p","r","o","d","u","c","t"," ","n","a","m","e">>, i)
                 => /\ \A k \in 1..Len(lines[i]) :
                         IsFirstColon(lines[i], k)
                         => prs.product_name
                              = Strip(SubSeq(lines[i], k + 1, Len(lines[i])))
                    /\ (\A k \in 1..Len(lines[i]) : lines[i][k] # ":")
                         => prs.product_name = Strip(lines[i])
            /\ NoneStarting(lines, <<"s","p","e","c","i","f","i","c","a","t","i","o","n","s">>)
                 => prs.specs_section = <<>>
            /\ \A i \in 1..Len(lines) :
                 IsFirstStarting(lines, <<"s","p","e","c","i","f","i","c","a","t","i","o","n","s">>, i)
                 => prs.specs_section = Strip(JoinedFrom(lines, i + 1))

\* A response with two "product name" lines, the first without a ":", and an
\* indented line after the "specifications" line.
C5_Witness ==
    /\ prs.pc = "return"
    /\ prs.response
         = <<"P","R","O","D","U","C","T"," ","N","A","M","E"," ","C","a","r","\n","P","r","o","d","u","c","t"," ","N","a","m","e",":"," ","W","i","d","g","e","t"," ","X","\n","S","p","e","c","i","f","i","c","a","t","i","o","n","s",":","\n"," "," ","-"," ","A",":"," ","1">>
    /\ prs.product_name = <<"P","R","O","D","U","C","T"," ","N","A","M","E"," ","C","a","r">>
    /\ prs.specs_section = <<"-"," ","A",":"," ","1">>

SuccessFields == {"filename", "product_name", "category", "catalog_entry"}
ErrorFields == {"filename", "error"}

\* The entries a thread has appended are still there, unchanged, after a step.
ResultsKept(r) ==
    /\ Len(req'[r].results) >= Len(req[r].results)
    /\ \A i \in 1..Len(req[r].results) : req'[r].results[i] = req[r].results[i]

\* What C1 says of one state of the request of thread 1.
C1_Shape ==
    LET t == req[1]
    IN  /\ Len(t.results) = Len(t.faults)
        /\ t.pc # "done" => Len(t.results) <= t.n
        /\ (t.pc = "done" /\ t.n > 0)
             => t.status = 200 /\ Len(t.results) = t.n /\ Len(t.files) = t.n
        /\ \A i \in 1..Len(t.faults) :
             /\ t.faults[i] = "save" <=> secure_filename(t.files[i].filename) = <<>>
             /\ t.faults[i] = "decode"
                  <=> /\ secure_filename(t.files[i].filename) # <<>>
                      /\ ~IsImage(t.files[i].data)
             /\ t.faults[i] # "none"
                  => /\ DOMAIN t.results[i] = ErrorFields
                     /\ t.results[i].filename = t.files[i].filename
             /\ t.faults[i] = "none"
                  => /\ DOMAIN t.results[i] = SuccessFields
                     /\ t.results[i].filename
                          = secure_filename(t.files[i].filename)

\* C1: a request of N files is answered with N results, the i-th for the i-th
\* file: an error entry {filename, error} for an item that failed (a name that
\* cannot be saved, a payload that is no image, a model call or a store write that
\* raised), a success entry {filename, product_name, category, catalog_entry} for
\* every other item; no failure ends the request, and no step changes the entry of
\* an earlier item.
C1_BatchIsolation == [](C1_Shape) /\ [][ResultsKept(1)]_vars

\* The example of the specification: three files, the second corrupted.
C1_Witness ==
    /\ req[1].pc = "done"
    /\ req[1].n = 3
    /\ req[1].faults = <<"none", "decode", "none">>
    /\ IsError(req[1].results[2])
    /\ ~IsError(req[1].results[1])
    /\ ~IsError(req[1].results[3])

\* C2: under every interleaving of two requests, the image bytes in an item's
\* record are the bytes uploaded for that item, and the image given to the model
\* for that item is that same image.
C2_StoredImageIsUploaded ==
    \A k \in 1..Len(store) :
        /\ B64Decode(store[k].image_base64) = audit[k].uploaded
        /\ audit[k].loc.given = audit[k].uploaded

\* The records made by item i of thread r.
RecordsOf(r, i) ==
    {k \in 1..Len(audit) : audit[k].thread = r /\ audit[k].item = i}

\* What C3 says of one state.
C3_State ==
    /\ Len(audit) = Len(store)
    /\ \A r \in Threads : \A i \in 1..Len(req[r].results) :
         LET entry == req[r].results[i]
         IN  IF IsError(entry) THEN RecordsOf(r, i) = {}
             ELSE /\ Cardinality(RecordsOf(r, i)) = 1
                  /\ \A k \in RecordsOf(r, i) : \A f \in SuccessFields :
                       store[k][f] = entry[f]
    /\ \A k \in 1..Len(audit) :
         /\ req[audit[k].thread].n > 0
         /\ audit[k].item <= Len(req[audit[k].thread].results)
    /\ listed.sent
         => /\ Len(listed.body) = Len(store)
            /\ \A k \in 1..Len(store) :
                 \A f \in {"product_name", "category", "catalog_entry"} :
                     listed.body[k][f] = store[k][f]

\* Every record is still there, unchanged and at its place, after a step.
StoreKept ==
    /\ Len(store') >= Len(store)
    /\ \A k \in 1..Len(store) : store'[k] = store[k]

LineCount(block) == Cardinality({i \in 1..Len(block) : block[i] = "\n"}) + 1

\* The block is empty, has fewer than 5 lines, or has a line with the marker.
IsThin(block) ==
    \/ block = <<>>
    \/ LineCount(block) < 5
    \/ \E i \in 1..Len(SplitLines(block)) : Contains(Marker, SplitLines(block)[i])

\* C6: for every record, the augmenter was run exactly when the parsed
\* specifications block is empty, has fewer than 5 lines or has a line with
\* "Requires further information"; when it ran, catalog_entry is the model text,
\* the "Additional Info from Web" header and the augmentation text, which is not
\* empty and is the record's web_scraped_info; when it did not run, catalog_entry
\* is the model text and web_scraped_info is empty.
C6_Augmentation ==
    \A k \in 1..Len(store) :
        LET a == audit[k].loc
        IN  /\ a.scraped <=> IsThin(a.specs_section)
            /\ a.scraped
                 => /\ a.web_info # <<>>
                    /\ store[k].web_scraped_info = a.web_info
                    /\ store[k].catalog_entry
                         = a.catalog_text \o WebInfoHeader \o a.web_info
            /\ ~a.scraped
                 => /\ store[k].web_scraped_info = <<>>
                    /\ store[k].catalog_entry = a.catalog_text

\* A record of a response with five specification lines, one with the marker.
C6_Witness ==
    \E k \in 1..Len(store) :
        /\ audit[k].loc.catalog_text = Strip(TextMarker)
        /\ LineCount(audit[k].loc.specs_section) = 5
        /\ audit[k].loc.scraped
        /\ store[k].web_scraped_info = NoSpecsFound

\* C7: scrape_specs returns a string that is not empty for every outcome of the
\* search, so no iteration ends in the handler's except because of it: the item
\* goes on to the store and the success entry; and the search is requested at most
\* once per item.
C7_ScrapeNeverFails ==
    /\ \A r \in Threads :
         /\ \A i \in 1..Len(req[r].faults) : req[r].faults[i] # "scrape"
         /\ req[r].loc.searches <= 1
         /\ req[r].loc.scraped
              => /\ req[r].loc.web_info # <<>>
                 /\ req[r].loc.web_info # Escaped
                 /\ req[r].pc = "persist"
    /\ \A k \in 1..Len(audit) :
         /\ audit[k].loc.searches <= 1
         /\ audit[k].loc.scraped => audit[k].loc.web_info # <<>>

\* The search timed out, and the item is in the store and a success entry.
C7_Witness ==
    /\ Len(store) = 1
    /\ store[1].web_scraped_info = ScrapeFailed \o <<"t","i","m","e","d"," ","o","u","t">>
    /\ audit[1].loc.searches = 1
    /\ req[1].pc = "done"
    /\ ~IsError(req[1].results[1])

\* C9: every record has a catalog_entry that is not empty and a category among
\* the ten labels, whatever the model's text was.
C9_RecordInvariants ==
    \A k \in 1..Len(store) :
        /\ store[k].catalog_entry # <<>>
        /\ store[k].category \in Labels

\* The record of a response of whitespace only, for which no snippet matched.
C9_Witness ==
    \E k \in 1..Len(store) :
        /\ audit[k].loc.catalog_text = <<>>
        /\ store[k].product_name = <<"U","n","k","n","o","w","n">>
        /\ store[k].web_scraped_info = NoSpecsFound

\* The places in the store of the records export_pdf can decode, in order.
RECURSIVE GoodIds(_, _)
GoodIds(entries, from) ==
    IF from > Len(entries) THEN <<>>
    ELSE IF Decodable(entries[from])
         THEN <<from>> \o GoodIds(entries, from + 1)
         ELSE GoodIds(entries, from + 1)

\* The draw operations of record i.
OpsOf(i) == LET Mine(op) == op.rec = i IN SelectSeq(pdf.ops, Mine)

\* C8: a record whose image data cannot be decoded is skipped entirely: the
\* document, its page count and its cursor are those of the export of the other
\* records alone; every other record is drawn with its image and then all its
\* text lines, the records in store order; and the export returns a document for
\* every store, the empty one too.
C8_SkipUndecodable ==
    pdf.status = 200 =>
        LET good == GoodIds(store, 1)
            alone == RenderFrom(NewCanvas, [k \in 1..Len(good) |-> store[good[k]]],
                                good, 1)
        IN  /\ pdf.records = Len(store)
            /\ pdf.ops = alone.ops /\ pdf.y = alone.y /\ pdf.pages = alone.page
            /\ \A k \in 1..Len(pdf.ops) : Decodable(store[pdf.ops[k].rec])
            /\ \A k \in 1..Len(pdf.ops) : \A l \in k..Len(pdf.ops) :
                 pdf.ops[k].rec <= pdf.ops[l].rec
            /\ \A i \in 1..Len(store) :
                 Decodable(store[i])
                 => LET mine == OpsOf(i)
                        n == Len(SplitLines(store[i].catalog_entry))
                    IN  /\ Len(mine) = n + 1
                        /\ mine[1].kind = "image"
                        /\ \A j \in 1..n :
                             mine[j + 1].kind = "text" /\ mine[j + 1].line = j

\* An undecodable record between two decodable ones, of which both are drawn.
C8_Witness ==
    /\ pdf.status = 200
    /\ Len(store) = 3
    /\ Decodable(store[1]) /\ ~Decodable(store[2]) /\ Decodable(store[3])
    /\ OpsOf(2) = <<>>
    /\ OpsOf(1) # <<>> /\ OpsOf(3) # <<>>

\* C10: when a record's image is drawn the cursor is at least 200 above the
\* bottom, the scaled image is at most 300 high and its bottom edge is not below
\* the bottom of the page; and no text line is written with the cursor below 100.
C10_ImageFitsPage ==
    pdf.status = 200 =>
        \A k \in 1..Len(pdf.ops) :
            LET op == pdf.ops[k]
            IN  /\ op.kind = "image"
                     => /\ op.y >= RecordFloor
                        /\ op.h <= MaxImgHeight
                        /\ op.y - op.h >= 0
                /\ op.kind = "text" => op.y >= TextFloor

====
